---- MODULE Spec2Model ----
(***************************************************************************)
(* CavityProof: the claim authorization protocol of the on-chain program   *)
(* programs/cavityproof/src/lib.rs.                                        *)
(*                                                                         *)
(* The ledger holds one UserState account per user (at the address derived *)
(* from ["user", user]) and one Claim account per (user, nonce) (at the    *)
(* address derived from ["claim", user, nonce]).  Every instruction runs   *)
(* as one transaction: the accounts are validated (and `init` accounts     *)
(* created) first, then the handler runs on working copies of the accounts *)
(* and the copies are written back only when the handler returns Ok.       *)
(*                                                                         *)
(* Integers are scaled: i64 is the range I64_MIN..I64_MAX and u32 is       *)
(* 0..U32_MAX, so that the ends of both ranges are reached.                *)
(***************************************************************************)
EXTENDS Integers, Sequences, FiniteSets, TLC

\* ------------------------------------------------------------------ bounds
\* largest day of the scaled i64 range (days are I64_MIN..I64_MAX)
MaxDay == 2
\* ClaimRecords the ledger holds at most; u32 counters saturate one below
MaxClaims == 3
\* the clock runs over 0..MaxTime
MaxTime == 1

I64_MAX == MaxDay
I64_MIN == (-MaxDay) - 1
U32_MAX == MaxClaims - 1

Days == I64_MIN..I64_MAX
Times == 0..MaxTime
Users == {1}
Nonces == {1, 2, 3}
SessionHashes == {1}
Sigs == {1}

\* ------------------------------------------------------- program constants
PUBKEY_BYTES == 32
HASH_BYTES == 32
NONCE_BYTES == 16
SIG_BYTES == 64
I64_BYTES == 8
MAX_IX_SCAN == 256
NEVER_CLAIMED == -1

\* "Ed25519SigVerify111111111111111111111111111", base58-decoded
ED25519_ID ==
  << 3, 125, 70, 214, 124, 147, 251, 190, 18, 249, 66, 143, 131, 141, 64, 255,
     5, 112, 116, 73, 39, 244, 138, 100, 252, 202, 112, 68, 128, 0, 0, 0 >>

\* declare_id!("BtJDtqG3Zy25gZC43H7q1TXTqjoeSh4JBHVYiWzwd2cb"), base58-decoded
PROGRAM_ID ==
  << 161, 184, 246, 190, 190, 181, 23, 118, 64, 150, 74, 231, 216, 111, 194, 19,
     201, 26, 63, 224, 109, 27, 60, 210, 166, 116, 147, 211, 131, 139, 111, 148 >>

\* "8yrUjTDd5pygozAQPob9nViMUUV1NT8in7BHCbe8HhGT", base58-decoded
ORACLE_PUBKEY ==
  << 118, 146, 71, 102, 1, 181, 187, 102, 189, 48, 177, 224, 160, 144, 213, 225,
     245, 122, 138, 106, 230, 220, 162, 23, 84, 28, 189, 174, 196, 244, 59, 48 >>

\* b"CPv1"
MAGIC == << 67, 80, 118, 49 >>

\* ------------------------------------------------------------ byte values
\* The byte strings the small input sets stand for: every byte but the last
\* is a fixed filler, the last byte is the index.
Filled(n, fill, last) == [i \in 1..n |-> IF i = n THEN last ELSE fill]

\* user.key(): the 32 bytes of the signer's public key
key(user) == Filled(PUBKEY_BYTES, 170, user)
\* session_hash: [u8; 32]
hash_bytes(h) == Filled(HASH_BYTES, 187, h)
\* nonce: [u8; 16]
nonce_bytes(n) == Filled(NONCE_BYTES, 204, n)
\* sig: [u8; 64]
sig_bytes(s) == Filled(SIG_BYTES, 221, s)

\* i64::to_le_bytes: two's complement, least significant byte first
RECURSIVE to_le_bytes(_, _)
to_le_bytes(x, n) ==
  IF n = 0 THEN << >> ELSE << x % 256 >> \o to_le_bytes(x \div 256, n - 1)

\* saturating_add as a wrapping u32 addition
wrapping_add_u32(x, y) == (x + y) % (U32_MAX + 1)

\* u32::saturating_add(1)
saturating_add(x, y) == IF x + y > U32_MAX THEN U32_MAX ELSE x + y

\* i64 addition in a build without overflow checks: wraps around
wrapping_add(x, y) == ((x + y - I64_MIN) % (I64_MAX - I64_MIN + 1)) + I64_MIN

\* build_payload_bytes that writes day where expires_at belongs
build_payload_bytes_day_twice(user, day, session_hash, nonce, expires_at) ==
  << 67, 80, 118, 49 >> \o user \o to_le_bytes(day, 8) \o session_hash \o nonce
        \o to_le_bytes(day, 8)

\* ----------------------------------------------------------- PayloadCodec
\* "CPv1" + user(32) + day(i64 LE) + sessionHash(32) + nonce(16) + expiresAt(i64 LE)
build_payload_bytes(user, day, session_hash, nonce, expires_at) ==
  MAGIC \o user \o to_le_bytes(day, I64_BYTES) \o session_hash \o nonce
        \o to_le_bytes(expires_at, I64_BYTES)

\* ---------------------------------------------------- AttestationVerifier
\* haystack.windows(needle.len()).any(|w| w == needle)
contains_subslice(haystack, needle) ==
  IF Len(needle) = 0 THEN TRUE
  ELSE IF Len(haystack) < Len(needle) THEN FALSE
  ELSE \E w \in 0..(Len(haystack) - Len(needle)) :
         \A j \in 1..Len(needle) : haystack[w + j] = needle[j]

\* load_instruction_at_checked(i, ix_sysvar): the i-th (0-based) instruction
\* of the transaction, or an error when the transaction has no such index
load_instruction_at_checked(i, instructions) ==
  IF i < Len(instructions) THEN << instructions[i + 1] >> ELSE << >>

\* the loop `for i in 0..256usize` from index i on; TRUE is Ok(()), FALSE is
\* Err(MissingEd25519Ix)
RECURSIVE scan_from(_, _, _, _, _)
scan_from(i, instructions, payload, sig, oracle_pk_bytes) ==
  IF i >= MAX_IX_SCAN THEN FALSE
  ELSE LET loaded == load_instruction_at_checked(i, instructions)
           ix == loaded[1]
       IN
    IF loaded = << >> THEN FALSE
    ELSE IF ix.program_id # ED25519_ID
      THEN scan_from(i + 1, instructions, payload, sig, oracle_pk_bytes)
    ELSE IF /\ contains_subslice(ix.data, oracle_pk_bytes)
            /\ contains_subslice(ix.data, sig)
            /\ contains_subslice(ix.data, payload)
      THEN TRUE
    ELSE scan_from(i + 1, instructions, payload, sig, oracle_pk_bytes)

\* require_ed25519_ix that does not look at the program id
RECURSIVE scan_any_program(_, _, _, _, _)
scan_any_program(i, instructions, payload, sig, oracle_pk_bytes) ==
  IF i >= MAX_IX_SCAN \/ i >= Len(instructions) THEN FALSE
  ELSE IF /\ contains_subslice(instructions[i + 1].data, oracle_pk_bytes)
          /\ contains_subslice(instructions[i + 1].data, sig)
          /\ contains_subslice(instructions[i + 1].data, payload)
    THEN TRUE
  ELSE scan_any_program(i + 1, instructions, payload, sig, oracle_pk_bytes)

require_ed25519_ix_any_program(instructions, payload, sig, oracle_pubkey) ==
  scan_any_program(0, instructions, payload, sig, oracle_pubkey)

require_ed25519_ix(instructions, payload, sig, oracle_pubkey) ==
  scan_from(0, instructions, payload, sig, oracle_pubkey)

\* ------------------------------------------------------------- accounts
\* #[account] pub struct UserState
UserState(owner, streak, last_day_claimed, total_claims) ==
  [owner |-> owner, streak |-> streak,
   last_day_claimed |-> last_day_claimed, total_claims |-> total_claims]

\* #[account] pub struct Claim
Claim(user, nonce, day) == [user |-> user, nonce |-> nonce, day |-> day]

\* an account `init` has just created: all fields zero
ZeroedUserState == UserState(0, 0, 0, 0)
ZeroedClaim == Claim(0, 0, 0)

\* what a handler leaves behind: its result and the working copies of the
\* accounts it was given
Outcome(result, user_state, claim) ==
  [result |-> result, user_state |-> user_state, claim |-> claim]

\* init_user that leaves owner as `init` zeroed it
init_user_owner_unset(user_state, user) ==
  Outcome("Ok", UserState(user_state.owner, 0, NEVER_CLAIMED, 0), ZeroedClaim)

\* -------------------------------------------------------------- handlers
init_user(user_state, user) ==
  Outcome("Ok", UserState(user, 0, NEVER_CLAIMED, 0), ZeroedClaim)

\* `x + y` leaves the i64 range
add_overflows(x, y) == x + y > I64_MAX \/ x + y < I64_MIN

\* the values `x + y` can take on i64: the sum; past i64::MAX the build
\* decides, a panic (overflow checks on) or the wrapped sum (off)
checked_or_wrapping_add(x, y) ==
  IF add_overflows(x, y)
    THEN { [panic |-> TRUE, value |-> 0], [panic |-> FALSE, value |-> wrapping_add(x, y)] }
    ELSE { [panic |-> FALSE, value |-> x + y] }

\* streak_step that resets the streak on the consecutive day too
streak_step_always_reset(user_state, claim, day, next) ==
  IF next.panic THEN Outcome("Panic", user_state, claim)
  ELSE IF day >= next.value
    THEN Outcome("Ok", UserState(user_state.owner, 1, day,
                                 saturating_add(user_state.total_claims, 1)), claim)
  ELSE Outcome("InvalidDay", user_state, claim)

\* the streak rules of claim_brush once `user_state.last_day_claimed + 1`
\* has the value next
streak_step(user_state, claim, day, next) ==
  IF next.panic THEN Outcome("Panic", user_state, claim)
  ELSE IF day = next.value
    THEN Outcome("Ok", UserState(user_state.owner,
                                 saturating_add(user_state.streak, 1), day,
                                 saturating_add(user_state.total_claims, 1)), claim)
  ELSE IF day > next.value
    THEN Outcome("Ok", UserState(user_state.owner, 1, day,
                                 saturating_add(user_state.total_claims, 1)), claim)
  ELSE Outcome("InvalidDay", user_state, claim)

\* streak_rules without the same-day check
streak_rules_no_same_day_check(user_state, claim, day) ==
  IF user_state.last_day_claimed = NEVER_CLAIMED
    THEN { Outcome("Ok", UserState(user_state.owner, 1, day,
                                   saturating_add(user_state.total_claims, 1)), claim) }
  ELSE { streak_step(user_state, claim, day, next) :
           next \in checked_or_wrapping_add(user_state.last_day_claimed, 1) }

\* the streak rules of claim_brush on the working copies: one outcome, or
\* two where the addition overflows
streak_rules(user_state, claim, day) ==
  IF ~(day # user_state.last_day_claimed)
    THEN { Outcome("AlreadyClaimedToday", user_state, claim) }
  ELSE IF user_state.last_day_claimed = NEVER_CLAIMED
    THEN { Outcome("Ok", UserState(user_state.owner, 1, day,
                                   saturating_add(user_state.total_claims, 1)), claim) }
  ELSE { streak_step(user_state, claim, day, next) :
           next \in checked_or_wrapping_add(user_state.last_day_claimed, 1) }

\* not_expired with `>` for `>=`
not_expired_strict(expires_at, clock) == expires_at > clock

\* require!(expires_at >= now, ErrorCode::Expired)
not_expired(expires_at, clock) == expires_at >= clock

\* claim_brush that looks for the verification instruction before the expiry
claim_brush_attestation_first(user_state, claim, user, clock, day, session_hash, nonce, expires_at, sig, instructions) ==
  IF user_state.owner # user THEN { Outcome("BadOwner", user_state, claim) }
  ELSE LET written == Claim(user, nonce, day)
           payload_bytes == build_payload_bytes(key(user), day,
                              hash_bytes(session_hash), nonce_bytes(nonce), expires_at)
       IN
    IF ~require_ed25519_ix(instructions, payload_bytes, sig_bytes(sig), ORACLE_PUBKEY)
      THEN { Outcome("MissingEd25519Ix", user_state, written) }
    ELSE IF ~not_expired(expires_at, clock) THEN { Outcome("Expired", user_state, claim) }
    ELSE streak_rules(user_state, written, day)

claim_brush(user_state, claim, user, clock, day, session_hash, nonce, expires_at, sig, instructions) ==
  IF user_state.owner # user THEN { Outcome("BadOwner", user_state, claim) }
  ELSE IF ~not_expired(expires_at, clock) THEN { Outcome("Expired", user_state, claim) }
  ELSE LET written == Claim(user, nonce, day)
           payload_bytes == build_payload_bytes(key(user), day,
                              hash_bytes(session_hash), nonce_bytes(nonce), expires_at)
       IN
    IF ~require_ed25519_ix(instructions, payload_bytes, sig_bytes(sig), ORACLE_PUBKEY)
      THEN { Outcome("MissingEd25519Ix", user_state, written) }
    ELSE streak_rules(user_state, written, day)

\* claim_brush_dev that leaves total_claims as it is
claim_brush_dev_uncounted(user_state, claim, user, clock, day, session_hash, nonce, expires_at, sig, instructions) ==
  IF user_state.owner # user THEN { Outcome("BadOwner", user_state, claim) }
  ELSE IF ~not_expired(expires_at, clock) THEN { Outcome("Expired", user_state, claim) }
  ELSE IF ~require_ed25519_ix(instructions,
             build_payload_bytes(key(user), day, hash_bytes(session_hash),
                                 nonce_bytes(nonce), expires_at),
             sig_bytes(sig), ORACLE_PUBKEY)
    THEN { Outcome("MissingEd25519Ix", user_state, Claim(user, nonce, day)) }
  ELSE { Outcome("Ok", user_state, Claim(user, nonce, day)) }

\* claim_brush_dev that applies the streak rules of claim_brush
claim_brush_dev_with_streak_rules(user_state, claim, user, clock, day, session_hash, nonce, expires_at, sig, instructions) ==
  claim_brush(user_state, claim, user, clock, day, session_hash, nonce,
              expires_at, sig, instructions)

claim_brush_dev(user_state, claim, user, clock, day, session_hash, nonce, expires_at, sig, instructions) ==
  IF user_state.owner # user THEN { Outcome("BadOwner", user_state, claim) }
  ELSE IF ~not_expired(expires_at, clock) THEN { Outcome("Expired", user_state, claim) }
  ELSE LET written == Claim(user, nonce, day)
           payload_bytes == build_payload_bytes(key(user), day,
                              hash_bytes(session_hash), nonce_bytes(nonce), expires_at)
       IN
    IF ~require_ed25519_ix(instructions, payload_bytes, sig_bytes(sig), ORACLE_PUBKEY)
      THEN { Outcome("MissingEd25519Ix", user_state, written) }
    ELSE { Outcome("Ok", UserState(user_state.owner, user_state.streak,
                                   user_state.last_day_claimed,
                                   saturating_add(user_state.total_claims, 1)), written) }

\* ------------------------------------------------------------ transactions
VARIABLES user_state,  \* the UserState accounts: user -> UserState, where one exists
          claim,       \* the Claim accounts: <<user, nonce>> -> Claim, where one exists
          now,         \* Clock::get()?.unix_timestamp
          done,        \* history: the claims that succeeded, [ix, user, nonce, day]
          probe        \* the inputs and the result of a pure function under test

vars == << user_state, claim, now, done, probe >>

\* the System program (all zero bytes): any program that is not Ed25519
SYSTEM_PROGRAM_ID == [i \in 1..PUBKEY_BYTES |-> 0]

\* sha256("global:claim_brush")[..8] and sha256("global:claim_brush_dev")[..8]
Discriminator(ix) ==
  IF ix = "claim_brush" THEN << 18, 145, 194, 166, 126, 67, 166, 33 >>
  ELSE << 30, 221, 215, 225, 51, 145, 90, 17 >>

Instruction(program_id, data) == [program_id |-> program_id, data |-> data]

\* the data of an Ed25519 verification instruction for one signature:
\* count, padding, the offsets (signature at 48, public key at 16, message at
\* 112, each in this instruction), then public key, signature and message
ed25519_data(pubkey, sig, msg) ==
  << 1, 0, 48, 0, 255, 255, 16, 0, 255, 255, 112, 0,
     Len(msg) % 256, Len(msg) \div 256, 255, 255 >> \o pubkey \o sig \o msg

\* the kinds of transaction a caller submits a claim in
Txs == {"alone", "attested", "foreign"}

\* the kinds of transaction the attestation scan is tried on.  A transaction
\* is at most 1232 bytes, so none holds a verification at an index near 256:
\* the scan always ends at the first index with no instruction.
AttestTxs ==
  Txs \cup {"stale", "wrong_sig", "wrong_key", "second", "after", "split",
            "scattered", "behind"}

\* claim calls: the signer, the UserState account passed, the arguments and
\* the kind of transaction
CallsOf(users, accts, days, nonces, times, txs) ==
  [user : users, acct : accts, day : days, session_hash : SessionHashes,
   nonce : nonces, expires_at : times, sig : Sigs, tx : txs]

Calls == CallsOf(Users, Users, Days, Nonces, Times, Txs)

\* the payload of call c
PayloadOf(c) ==
  build_payload_bytes(key(c.user), c.day, hash_bytes(c.session_hash),
                      nonce_bytes(c.nonce), c.expires_at)

\* the claim instruction itself: discriminator and arguments
OwnInstruction(ix, c) ==
  Instruction(PROGRAM_ID,
    Discriminator(ix) \o to_le_bytes(c.day, I64_BYTES)
      \o hash_bytes(c.session_hash) \o nonce_bytes(c.nonce)
      \o to_le_bytes(c.expires_at, I64_BYTES) \o sig_bytes(c.sig))

\* the oracle's Ed25519 verification of the payload of call c
Companion(c) ==
  Instruction(ED25519_ID, ed25519_data(ORACLE_PUBKEY, sig_bytes(c.sig), PayloadOf(c)))

\* n instructions of another program
Filler(n) == [i \in 1..n |-> Instruction(SYSTEM_PROGRAM_ID, << >>)]

\* the instructions of the transaction that carries call c of instruction
\* ix, by the kind c.tx
Transaction(ix, c) ==
  LET own == OwnInstruction(ix, c)
      other == [c EXCEPT !.nonce = 0]
  IN CASE c.tx = "alone" -> << own >>
       \* preceded by the oracle's Ed25519 verification of the payload
       [] c.tx = "attested" -> << Companion(c), own >>
       \* the same data, issued by another program
       [] c.tx = "foreign" ->
            << Instruction(SYSTEM_PROGRAM_ID, Companion(c).data), own >>
       \* the oracle's verification of the payload of another nonce
       [] c.tx = "stale" -> << Companion(other), own >>
       \* a verification of the payload under another signature
       [] c.tx = "wrong_sig" ->
            << Instruction(ED25519_ID,
                 ed25519_data(ORACLE_PUBKEY, sig_bytes(0), PayloadOf(c))), own >>
       \* a verification of the payload under the caller's own key
       [] c.tx = "wrong_key" ->
            << Instruction(ED25519_ID,
                 ed25519_data(key(c.user), sig_bytes(c.sig), PayloadOf(c))), own >>
       \* the verification follows one that does not match
       [] c.tx = "second" -> << Companion(other), Companion(c), own >>
       \* the verification follows the claim
       [] c.tx = "after" -> << own, Companion(c) >>
       \* key and signature in one Ed25519 instruction, the payload in another
       [] c.tx = "split" ->
            << Instruction(ED25519_ID, ORACLE_PUBKEY \o sig_bytes(c.sig)),
               Instruction(ED25519_ID, PayloadOf(c)), own >>
       \* Ed25519 data that is no verification layout but holds the three runs
       [] c.tx = "scattered" ->
            << Instruction(ED25519_ID,
                 PayloadOf(c) \o << 0 >> \o sig_bytes(c.sig) \o << 0 >> \o ORACLE_PUBKEY),
               own >>
       \* the verification follows instructions of other programs
       [] c.tx = "behind" -> Filler(3) \o << Companion(c), own >>

\* the accounts after an instruction, with its result
Ledger(result, us, cl) == [result |-> result, user_state |-> us, claim |-> cl]

Put(f, k, v) == [a \in (DOMAIN f) \cup {k} |-> IF a = k THEN v ELSE f[a]]

\* commit that keeps the working copies of a failed handler too
commit_always(o, us, cl, acct, user, nonce) ==
  Ledger(o.result, Put(us, acct, o.user_state), Put(cl, << user, nonce >>, o.claim))

\* the transaction commits the handler's working copies when it returns Ok
\* and discards them when it returns an error
commit(o, us, cl, acct, user, nonce) ==
  IF o.result = "Ok"
    THEN Ledger("Ok", Put(us, acct, o.user_state), Put(cl, << user, nonce >>, o.claim))
    ELSE Ledger(o.result, us, cl)

\* process_init_user with `init_if_needed` for `init` on user_state
process_init_user_init_if_needed(us, cl, user) ==
  Ledger("Ok", Put(us, user, init_user(ZeroedUserState, user).user_state), cl)

\* #[derive(Accounts)] InitUser: `init` fails when the account exists
process_init_user(us, cl, user) ==
  IF user \in DOMAIN us THEN Ledger("AlreadyInUse", us, cl)
  ELSE LET o == init_user(ZeroedUserState, user) IN
    IF o.result = "Ok" THEN Ledger("Ok", Put(us, user, o.user_state), cl)
    ELSE Ledger(o.result, us, cl)

\* validate_claim_accounts with `init_if_needed` for `init` on claim
validate_claim_accounts_init_if_needed(us, cl, user, acct, nonce) ==
  IF acct \notin DOMAIN us THEN "AccountNotInitialized"
  ELSE IF acct # user THEN "ConstraintSeeds"
  ELSE "Ok"

\* #[derive(Accounts)] ClaimBrush / ClaimBrushDev: user_state must hold a
\* UserState, `init` of claim fails when the account at ["claim", user, nonce]
\* exists, and user_state must be the account at ["user", user]
validate_claim_accounts(us, cl, user, acct, nonce) ==
  IF acct \notin DOMAIN us THEN "AccountNotInitialized"
  ELSE IF << user, nonce >> \in DOMAIN cl THEN "AlreadyInUse"
  ELSE IF acct # user THEN "ConstraintSeeds"
  ELSE "Ok"

\* the ledgers the instruction claim_brush(c) can leave
process_claim_brush(us, cl, clock, c) ==
  LET valid == validate_claim_accounts(us, cl, c.user, c.acct, c.nonce) IN
  IF valid # "Ok" THEN { Ledger(valid, us, cl) }
  ELSE { commit(o, us, cl, c.acct, c.user, c.nonce) :
           o \in claim_brush(us[c.acct], ZeroedClaim, c.user, clock,
                             c.day, c.session_hash, c.nonce, c.expires_at, c.sig,
                             Transaction("claim_brush", c)) }

\* the ledgers the instruction claim_brush_dev(c) can leave
process_claim_brush_dev(us, cl, clock, c) ==
  LET valid == validate_claim_accounts(us, cl, c.user, c.acct, c.nonce) IN
  IF valid # "Ok" THEN { Ledger(valid, us, cl) }
  ELSE { commit(o, us, cl, c.acct, c.user, c.nonce) :
           o \in claim_brush_dev(us[c.acct], ZeroedClaim, c.user, clock,
                                 c.day, c.session_hash, c.nonce, c.expires_at, c.sig,
                                 Transaction("claim_brush_dev", c)) }

\* ----------------------------------------------------------------- actions
Init ==
  /\ user_state = << >>
  /\ claim = << >>
  /\ now = 0
  /\ done = {}
  /\ probe = [kind |-> "none"]

InitUser ==
  \E user \in Users :
    LET t == process_init_user(user_state, claim, user) IN
    /\ user_state' = t.user_state
    /\ claim' = t.claim
    /\ UNCHANGED << now, done, probe >>

\* the history entry of a successful call c of instruction ix
Done(ix, c) == [ix |-> ix, user |-> c.user, nonce |-> c.nonce, day |-> c.day]

ClaimBrush ==
  \E c \in Calls :
    \E t \in process_claim_brush(user_state, claim, now, c) :
      /\ t.result = "Ok" => Cardinality(DOMAIN claim) < MaxClaims
      /\ user_state' = t.user_state
      /\ claim' = t.claim
      /\ done' = IF t.result = "Ok" THEN done \cup {Done("claim_brush", c)} ELSE done
      /\ UNCHANGED << now, probe >>

ClaimBrushDev ==
  \E c \in Calls :
    \E t \in process_claim_brush_dev(user_state, claim, now, c) :
      /\ t.result = "Ok" => Cardinality(DOMAIN claim) < MaxClaims
      /\ user_state' = t.user_state
      /\ claim' = t.claim
      /\ done' = IF t.result = "Ok" THEN done \cup {Done("claim_brush_dev", c)} ELSE done
      /\ UNCHANGED << now, probe >>

\* the clock advances
Tick ==
  /\ now < MaxTime
  /\ now' = now + 1
  /\ UNCHANGED << user_state, claim, done, probe >>

Next == InitUser \/ ClaimBrush \/ ClaimBrushDev \/ Tick

Spec == Init /\ [][Next]_vars


\* ------------------------------------------- the attestation scan, alone
\* the calls the attestation scan is tried on
AttestCalls == CallsOf(Users, Users, {NEVER_CLAIMED, 0}, {1, 2}, Times, AttestTxs)

InitAttest ==
  /\ user_state = << >>
  /\ claim = << >>
  /\ now = 0
  /\ done = {}
  /\ probe \in [kind : {"attest"}, ix : {"claim_brush", "claim_brush_dev"},
                c : AttestCalls, results : {{}}]

\* the handler of probe.ix runs call probe.c on a fresh UserState, in the
\* transaction of kind probe.c.tx
Attest ==
  /\ probe.kind = "attest" /\ probe.results = {}
  /\ LET c == probe.c
         fresh == UserState(c.user, 0, NEVER_CLAIMED, 0)
         os == IF probe.ix = "claim_brush"
                 THEN claim_brush(fresh, ZeroedClaim, c.user, now, c.day,
                        c.session_hash, c.nonce, c.expires_at, c.sig,
                        Transaction(probe.ix, c))
                 ELSE claim_brush_dev(fresh, ZeroedClaim, c.user, now, c.day,
                        c.session_hash, c.nonce, c.expires_at, c.sig,
                        Transaction(probe.ix, c))
     IN probe' = [probe EXCEPT !.results = { o.result : o \in os }]
  /\ UNCHANGED << user_state, claim, now, done >>

SpecAttest == InitAttest /\ [][Attest]_vars

\* --------------------------------------------------- the payload, alone
\* the tuples build_payload_bytes is tried on
PayloadInputs ==
  [user : {key(1), key(2)}, day : Days, session_hash : {hash_bytes(1), hash_bytes(2)},
   nonce : {nonce_bytes(1), nonce_bytes(2)}, expires_at : {-257, 0, 258}]

InitPayload ==
  /\ user_state = << >>
  /\ claim = << >>
  /\ now = 0
  /\ done = {}
  /\ probe \in [kind : {"payload"}, a : PayloadInputs, b : PayloadInputs,
                encoded : {<< >>}]

\* build_payload_bytes encodes both tuples
Encode ==
  /\ probe.kind = "payload" /\ probe.encoded = << >>
  /\ probe' = [probe EXCEPT !.encoded =
       << build_payload_bytes(probe.a.user, probe.a.day, probe.a.session_hash,
                              probe.a.nonce, probe.a.expires_at),
          build_payload_bytes(probe.b.user, probe.b.day, probe.b.session_hash,
                              probe.b.nonce, probe.b.expires_at) >>]
  /\ UNCHANGED << user_state, claim, now, done >>

SpecPayload == InitPayload /\ [][Encode]_vars

\* ------------------------------------------------------ two users' claims
\* two signers, each of whom can pass either UserState account
TwoUsers == {1, 2}

\* the claim calls of two users
UserCalls == CallsOf(TwoUsers, TwoUsers, {0, 1, 2}, {1, 2}, Times, {"alone", "attested"})

InitAnyUser ==
  \E user \in TwoUsers :
    LET t == process_init_user(user_state, claim, user) IN
    /\ user_state' = t.user_state
    /\ claim' = t.claim
    /\ UNCHANGED << now, done, probe >>

AnyClaimBrush ==
  \E c \in UserCalls :
    \E t \in process_claim_brush(user_state, claim, now, c) :
      /\ user_state' = t.user_state
      /\ claim' = t.claim
      /\ done' = IF t.result = "Ok" THEN done \cup {Done("claim_brush", c)} ELSE done
      /\ UNCHANGED << now, probe >>

AnyClaimBrushDev ==
  \E c \in UserCalls :
    \E t \in process_claim_brush_dev(user_state, claim, now, c) :
      /\ user_state' = t.user_state
      /\ claim' = t.claim
      /\ done' = IF t.result = "Ok" THEN done \cup {Done("claim_brush_dev", c)} ELSE done
      /\ UNCHANGED << now, probe >>

NextUsers == InitAnyUser \/ AnyClaimBrush \/ AnyClaimBrushDev \/ Tick

SpecUsers == Init /\ [][NextUsers]_vars

\* load_accounts without the write locks: a transaction reads the accounts
\* as they were when it was submitted
load_accounts_unlocked(submitted, committed) == submitted

\* --------------------------------------------------- two concurrent claims
\* the accounts a transaction reads: user_state is `mut` and claim is `init`
\* in ClaimBrush and ClaimBrushDev, so a transaction holds the write lock of
\* both while it runs and reads what the transactions before it committed
load_accounts(submitted, committed) == committed

\* the claims of one user that set the ledger up before the concurrent pair
PriorCalls == CallsOf(Users, Users, {0, I64_MAX}, {3}, {MaxTime}, {"attested"})

\* the claims submitted concurrently: the instruction and its call
ConcurrentCalls ==
  [ix : {"claim_brush", "claim_brush_dev"},
   c : CallsOf(Users, Users, {0, 1}, {1, 2}, {MaxTime}, {"alone", "attested"})]

\* the ledgers instruction ix of call c can leave from the accounts `at`
Run(ix, at, clock, c) ==
  IF ix = "claim_brush" THEN process_claim_brush(at.user_state, at.claim, clock, c)
  ELSE process_claim_brush_dev(at.user_state, at.claim, clock, c)

\* the ledger is set up: the user initialises, or claims
Prepare ==
  /\ probe.kind = "none"
  /\ \/ \E user \in Users :
          LET t == process_init_user(user_state, claim, user) IN
          /\ user_state' = t.user_state
          /\ claim' = t.claim
          /\ done' = done
     \/ \E c \in PriorCalls :
          \E t \in process_claim_brush(user_state, claim, now, c) :
            /\ user_state' = t.user_state
            /\ claim' = t.claim
            /\ done' = IF t.result = "Ok" THEN done \cup {Done("claim_brush", c)} ELSE done
  /\ UNCHANGED << now, probe >>

\* two claims are submitted at once, on the accounts as committed so far
Submit ==
  /\ probe.kind = "none"
  /\ \E a, b \in ConcurrentCalls :
       probe' = [kind |-> "pair", a |-> a, b |-> b,
                 submitted |-> [user_state |-> user_state, claim |-> claim],
                 order |-> << >>, results |-> << >>]
  /\ UNCHANGED << user_state, claim, now, done >>

\* the scheduler runs one of the two, as one transaction
Execute ==
  /\ probe.kind = "pair"
  /\ \E i \in {"a", "b"} :
       /\ \A k \in 1..Len(probe.order) : probe.order[k] # i
       /\ LET call == probe[i]
              at == load_accounts(probe.submitted,
                                  [user_state |-> user_state, claim |-> claim])
          IN \E t \in Run(call.ix, at, now, call.c) :
               /\ user_state' = t.user_state
               /\ claim' = t.claim
               /\ done' = IF t.result = "Ok" THEN done \cup {Done(call.ix, call.c)} ELSE done
               /\ probe' = [probe EXCEPT !.order = Append(@, i),
                                         !.results = Append(@, t.result)]
  /\ UNCHANGED now

NextConcurrent == Prepare \/ Submit \/ Execute

SpecConcurrent == Init /\ [][NextConcurrent]_vars

\* ================================================================== claims
\* the ledgers the two claim instructions can leave in the current state
Brush(c) == process_claim_brush(user_state, claim, now, c)
Dev(c) == process_claim_brush_dev(user_state, claim, now, c)
Either(c) == Brush(c) \cup Dev(c)

\* ledger t is the current one
Unchanged(t) == t.user_state = user_state /\ t.claim = claim

\* call c passes the account validation, and so reaches the handler
AccountsValid(c) ==
  validate_claim_accounts(user_state, claim, c.user, c.acct, c.nonce) = "Ok"

\* call c is unexpired and carries the oracle's verification of its payload
WellFormed(c) == c.expires_at >= now /\ c.tx = "attested"

\* C1: at most one claim of either kind ever succeeds per (user, nonce): a
\* claim on a (user, nonce) whose ClaimRecord exists is rejected whatever
\* its day, expiry and attestation, and changes nothing; every claim that
\* succeeded has its ClaimRecord, and no two of them share (user, nonce).
ReplayGuard ==
  /\ \A c \in Calls :
       << c.user, c.nonce >> \in DOMAIN claim =>
         \A t \in Either(c) :
           /\ t.result # "Ok"
           /\ c.acct \in DOMAIN user_state => t.result = "AlreadyInUse"
           /\ Unchanged(t)
  /\ \A a \in done : << a.user, a.nonce >> \in DOMAIN claim
  /\ \A a, b \in done : a.user = b.user /\ a.nonce = b.nonce => a = b

\* a consumed nonce is tried again for another day, unexpired and attested,
\* and rejected
ReplayGuardWitness ==
  \E c \in Calls :
    /\ << c.user, c.nonce >> \in DOMAIN claim
    /\ claim[<< c.user, c.nonce >>].day # c.day
    /\ WellFormed(c)
    /\ \E t \in Brush(c) : t.result = "AlreadyInUse"
    /\ \E t \in Dev(c) : t.result = "AlreadyInUse"

\* C2: for every user and day, at most one claim_brush with that day ever
\* succeeds.
OncePerDay ==
  \A a, b \in done :
    (a.ix = "claim_brush" /\ b.ix = "claim_brush" /\ a.user = b.user /\ a.day = b.day)
      => a = b

RunState(u, d, k) ==
  /\ u \in DOMAIN user_state
  /\ { a \in done : a.user = u } \subseteq { a \in done : a.ix = "claim_brush" }
  /\ { a.day : a \in { b \in done : b.user = u } } = d..(d + k - 1)
  /\ Cardinality({ a \in done : a.user = u }) = k
  /\ user_state[u] = UserState(u, k, IF k = 0 THEN NEVER_CLAIMED ELSE d + k - 1, k)

\* C4: from a fresh user and for every starting day d, the claim_brush calls
\* for d, d+1, ..., d+n-1 (fresh nonces, unexpired, attested) all succeed and
\* leave streak = n, total_claims = n, last_day_claimed = d+n-1, for n below
\* the counter maximum.  Stated as the step of the run: after k claims of
\* it, the claim of day d+k succeeds and leaves (k+1, d+k, k+1).
ConsecutiveRun ==
  \A u \in Users, d \in Days, k \in 0..(U32_MAX - 1) :
    (d + k <= I64_MAX /\ RunState(u, d, k)) =>
      \A c \in Calls :
        (c.user = u /\ c.acct = u /\ c.day = d + k /\ AccountsValid(c) /\ WellFormed(c)) =>
          \A t \in Brush(c) :
            t.result = "Ok" /\ t.user_state[u] = UserState(u, k + 1, d + k, k + 1)

\* C5: a successful claim_brush leaves streak = 1 if last_day_claimed was
\* the sentinel or day > last_day_claimed + 1, streak = saturating streak + 1
\* if day = last_day_claimed + 1, last_day_claimed = day and total_claims =
\* saturating total_claims + 1.
StreakTransition ==
  \A c \in Calls :
    \A t \in Brush(c) :
      t.result = "Ok" =>
        LET pre == user_state[c.acct]
            post == t.user_state[c.acct]
        IN /\ (pre.last_day_claimed = NEVER_CLAIMED \/ c.day > pre.last_day_claimed + 1)
                => post.streak = 1
           /\ c.day = pre.last_day_claimed + 1
                => post.streak = saturating_add(pre.streak, 1)
           /\ post.last_day_claimed = c.day
           /\ post.total_claims = saturating_add(pre.total_claims, 1)

\* C6, as stated: a claim_brush for the day that is last_day_claimed is
\* rejected with AlreadyClaimedToday for any nonce when expiry and
\* attestation are valid, and changes nothing.
SameDayAnyNonce ==
  \A c \in Calls :
    (/\ c.acct = c.user
     /\ c.acct \in DOMAIN user_state
     /\ c.day = user_state[c.acct].last_day_claimed
     /\ WellFormed(c)) =>
      \A t \in Brush(c) : t.result = "AlreadyClaimedToday" /\ Unchanged(t)

\* C6, amended: a claim_brush for the day that is last_day_claimed is
\* rejected and changes nothing, whatever its nonce, expiry and
\* attestation; the error is AlreadyClaimedToday when the nonce is unused
\* and expiry and attestation are valid.
SameDayRejected ==
  \A c \in Calls :
    (/\ c.acct = c.user
     /\ c.acct \in DOMAIN user_state
     /\ c.day = user_state[c.acct].last_day_claimed) =>
      \A t \in Brush(c) :
        /\ t.result # "Ok"
        /\ Unchanged(t)
        /\ (AccountsValid(c) /\ WellFormed(c)) => t.result = "AlreadyClaimedToday"

\* a user who has claimed a day claims it again with an unused nonce,
\* unexpired and attested, and is rejected with AlreadyClaimedToday
SameDayWitness ==
  \E c \in Calls :
    /\ \E a \in done : a.ix = "claim_brush" /\ a.user = c.user /\ a.day = c.day
    /\ AccountsValid(c) /\ WellFormed(c)
    /\ c.day = user_state[c.acct].last_day_claimed
    /\ \E t \in Brush(c) : t.result = "AlreadyClaimedToday"

\* C7: for a user with a successful claim_brush, every claim_brush for a day
\* before last_day_claimed (fresh nonce, unexpired, attested) is rejected
\* with InvalidDay and changes nothing, whatever last_day_claimed is.
NoTimeTravel ==
  \A c \in Calls :
    (/\ \E a \in done : a.ix = "claim_brush" /\ a.user = c.user
     /\ AccountsValid(c) /\ WellFormed(c)
     /\ c.day < user_state[c.acct].last_day_claimed) =>
      \A t \in Brush(c) : t.result = "InvalidDay" /\ Unchanged(t)

\* C9: a claim that reaches the handler fails with Expired exactly when
\* expires_at < now (expires_at = now passes), whatever the transaction
\* carries, and then nothing is persisted.
ExpiryGuard ==
  \A c \in Calls :
    AccountsValid(c) =>
      \A t \in Either(c) :
        /\ (t.result = "Expired") = (c.expires_at < now)
        /\ t.result = "Expired" => Unchanged(t)

\* at one time, a claim that expired one second ago fails with Expired
\* though its transaction carries the oracle's verification, under both
\* instructions, and one that expires now succeeds
ExpiryGuardWitness ==
  /\ \E c \in Calls :
       /\ AccountsValid(c) /\ c.expires_at = now - 1 /\ c.tx = "attested"
       /\ \E t \in Brush(c) : t.result = "Expired"
       /\ \E t \in Dev(c) : t.result = "Expired"
  /\ \E c \in Calls :
       /\ AccountsValid(c) /\ c.expires_at = now
       /\ \E t \in Brush(c) : t.result = "Ok"
       /\ \E t \in Dev(c) : t.result = "Ok"

\* needle occurs in haystack as a contiguous run
Occurs(haystack, needle) ==
  \E k \in 0..(Len(haystack) - Len(needle)) :
    SubSeq(haystack, k + 1, k + Len(needle)) = needle

\* one of the instructions at an index below 256 is issued by the Ed25519
\* program and its data holds the oracle key, the signature and the payload
\* of call c
HasCompanion(instructions, c) ==
  \E i \in 1..Len(instructions) :
    /\ i - 1 < 256
    /\ instructions[i].program_id = ED25519_ID
    /\ Occurs(instructions[i].data, ORACLE_PUBKEY)
    /\ Occurs(instructions[i].data, sig_bytes(c.sig))
    /\ Occurs(instructions[i].data, PayloadOf(c))

\* C8: claim_brush and claim_brush_dev pass the attestation stage exactly
\* when an instruction of the transaction at an index below 256 is issued
\* by the Ed25519 program and its data contains the oracle public key, the
\* caller's signature and the 100-byte payload of this call; otherwise the
\* call fails with MissingEd25519Ix.  An instruction of another program
\* never counts.
AttestationPresence ==
  (probe.kind = "attest" /\ probe.results # {} /\ probe.c.expires_at >= now) =>
    /\ ("MissingEd25519Ix" \notin probe.results)
         = HasCompanion(Transaction(probe.ix, probe.c), probe.c)
    /\ Len(PayloadOf(probe.c)) = 100
    /\ probe.c.tx = "foreign" => probe.results = {"MissingEd25519Ix"}

\* the scan has accepted a verification that follows a non-matching one
AttestationPresenceWitness ==
  /\ probe.kind = "attest" /\ probe.c.tx = "second"
  /\ probe.results = {"Ok"}

\* i64::from_le_bytes
RECURSIVE from_le_bytes(_)
from_le_bytes(bytes) ==
  IF Len(bytes) = 1
    THEN (IF bytes[1] >= 128 THEN bytes[1] - 256 ELSE bytes[1])
    ELSE bytes[1] + 256 * from_le_bytes(Tail(bytes))

\* the fields at the fixed offsets of a payload
decode_payload(bytes) ==
  [user |-> SubSeq(bytes, 5, 36),
   day |-> from_le_bytes(SubSeq(bytes, 37, 44)),
   session_hash |-> SubSeq(bytes, 45, 76),
   nonce |-> SubSeq(bytes, 77, 92),
   expires_at |-> from_le_bytes(SubSeq(bytes, 93, 100))]

\* C10: build_payload_bytes returns exactly 100 bytes, "CPv1" | user(32) |
\* day(8, LE signed) | session_hash(32) | nonce(16) | expires_at(8, LE
\* signed); two different tuples never encode to the same bytes, and the
\* fields at the fixed offsets of the encoding are the original tuple.
CanonicalPayload ==
  (probe.kind = "payload" /\ probe.encoded # << >>) =>
    /\ Len(probe.encoded[1]) = 100
    /\ SubSeq(probe.encoded[1], 1, 4) = << 67, 80, 118, 49 >>
    /\ decode_payload(probe.encoded[1]) = probe.a
    /\ decode_payload(probe.encoded[2]) = probe.b
    /\ (probe.encoded[1] = probe.encoded[2]) = (probe.a = probe.b)

\* two tuples that differ only in expires_at, one negative, were encoded
CanonicalPayloadWitness ==
  /\ probe.kind = "payload" /\ probe.encoded # << >>
  /\ probe.a.expires_at < 0 /\ probe.a.day < 0
  /\ probe.b = [probe.a EXCEPT !.expires_at = 258]
  /\ probe.encoded[1] # probe.encoded[2]

\* the ledger init_user(u) leaves in the current state
Initialise(u) == process_init_user(user_state, claim, u)

\* C11: init_user for a user without a UserState creates (owner = user,
\* streak = 0, last_day_claimed = -1, total_claims = 0) and touches nothing
\* else; init_user for a user whose UserState exists fails and leaves
\* streak, last_day_claimed and total_claims as they were.
InitialiseOnce ==
  \A u \in Users :
    LET t == Initialise(u) IN
    IF u \notin DOMAIN user_state
      THEN /\ t.result = "Ok"
           /\ t.user_state = Put(user_state, u, UserState(u, 0, -1, 0))
           /\ t.claim = claim
      ELSE /\ t.result # "Ok"
           /\ Unchanged(t)

\* a user with a streak and claims initialises again and is rejected
InitialiseOnceWitness ==
  \E u \in DOMAIN user_state :
    /\ user_state[u].streak > 1 /\ user_state[u].total_claims > 1
    /\ user_state[u].last_day_claimed # -1
    /\ Initialise(u).result = "AlreadyInUse"

\* C12: every successful claim_brush leaves last_day_claimed greater than or
\* equal to its value before the claim, from the fresh state on and for
\* every day the operation accepts.
MonotoneLastDay ==
  \A c \in Calls :
    \A t \in Brush(c) :
      t.result = "Ok" =>
        t.user_state[c.acct].last_day_claimed >= user_state[c.acct].last_day_claimed

\* C13: total_claims never decreases under claim_brush and claim_brush_dev,
\* and neither total_claims nor streak wraps: a successful claim leaves
\* total_claims one higher, or at the u32 maximum when it was there, and
\* streak at 1 or one higher, or at the maximum when it was there; at the
\* maximum the claims succeed as they do below it.
CountersSaturate ==
  \A c \in Calls :
    LET pre == user_state[c.acct] IN
    /\ \A t \in Either(c) :
         t.result = "Ok" =>
           LET post == t.user_state[c.acct] IN
           /\ post.total_claims >= pre.total_claims
           /\ post.total_claims <= U32_MAX
           /\ post.total_claims = (IF pre.total_claims = U32_MAX THEN U32_MAX
                                   ELSE pre.total_claims + 1)
           /\ post.streak <= U32_MAX
    /\ \A t \in Brush(c) :
         t.result = "Ok" =>
           LET post == t.user_state[c.acct] IN
           \/ post.streak = 1
           \/ post.streak = (IF pre.streak = U32_MAX THEN U32_MAX ELSE pre.streak + 1)
    /\ (AccountsValid(c) /\ WellFormed(c)) =>
         /\ \A t \in Dev(c) : t.result = "Ok"
         /\ (pre.last_day_claimed \notin {-1, I64_MAX} /\ c.day > pre.last_day_claimed) =>
              \A t \in Brush(c) : t.result = "Ok"
         /\ (pre.last_day_claimed \notin {-1, I64_MAX} /\ c.day = pre.last_day_claimed + 1
               /\ pre.streak = U32_MAX) =>
              \A t \in Brush(c) : t.user_state[c.acct].streak = U32_MAX

\* with streak and total_claims both at the maximum, the claim of the next
\* day succeeds and leaves both at the maximum, and so does a dev claim
CountersSaturateWitness ==
  \E c \in Calls :
    /\ AccountsValid(c) /\ WellFormed(c)
    /\ user_state[c.acct].streak = U32_MAX
    /\ user_state[c.acct].total_claims = U32_MAX
    /\ user_state[c.acct].last_day_claimed # -1
    /\ c.day = user_state[c.acct].last_day_claimed + 1
    /\ \E t \in Brush(c) :
         /\ t.result = "Ok"
         /\ t.user_state[c.acct].streak = U32_MAX
         /\ t.user_state[c.acct].total_claims = U32_MAX
    /\ \E t \in Dev(c) :
         t.result = "Ok" /\ t.user_state[c.acct].total_claims = U32_MAX

\* C14, as stated: the streak after a successful claim is greater than or
\* equal to the streak before it.
StreakNeverDecreases ==
  \A c \in Calls :
    \A t \in Either(c) :
      t.result = "Ok" => t.user_state[c.acct].streak >= user_state[c.acct].streak

\* C14, amended: a successful claim_brush_dev leaves the streak as it was; a
\* successful claim_brush leaves it at the saturating successor, which is
\* never lower, or resets it to 1: the successor when the day is
\* last_day_claimed + 1 and last_day_claimed is not -1, and 1 when the day
\* is later than last_day_claimed + 1 or last_day_claimed is -1.
StreakStepOrReset ==
  \A c \in Calls :
    LET pre == user_state[c.acct] IN
    /\ \A t \in Dev(c) :
         t.result = "Ok" => t.user_state[c.acct].streak = pre.streak
    /\ \A t \in Brush(c) :
         t.result = "Ok" =>
           LET post == t.user_state[c.acct] IN
           /\ post.streak \in {1, saturating_add(pre.streak, 1)}
           /\ saturating_add(pre.streak, 1) >= pre.streak
           /\ (pre.last_day_claimed # -1 /\ c.day = pre.last_day_claimed + 1)
                => post.streak = saturating_add(pre.streak, 1)
           /\ (pre.last_day_claimed = -1 \/ c.day > pre.last_day_claimed + 1)
                => post.streak = 1

\* a user with a streak of 2 claims the day after, which keeps the streak
\* from falling, and can claim a later day, which resets it to 1
StreakStepOrResetWitness ==
  /\ \E c \in Calls :
       /\ AccountsValid(c) /\ user_state[c.acct].streak = 2
       /\ \E t \in Brush(c) : t.result = "Ok" /\ t.user_state[c.acct].streak = 1
  /\ \E c \in Calls :
       /\ AccountsValid(c) /\ user_state[c.acct].streak = 2
       /\ \E t \in Brush(c) : t.result = "Ok" /\ t.user_state[c.acct].streak = 2

\* C15: a claim_brush_dev succeeds exactly when the caller is the owner of
\* the UserState passed, expires_at >= now, the transaction carries the
\* matching verification instruction and (user, nonce) is unused, whatever
\* the day is (equal to, before or after last_day_claimed); a successful
\* one changes only total_claims (saturating +1) and creates the
\* ClaimRecord of (user, nonce): streak, last_day_claimed and every other
\* account are as before.
DevFrame ==
  \A c \in UserCalls :
    \A t \in process_claim_brush_dev(user_state, claim, now, c) :
      /\ (t.result = "Ok") =
           (/\ c.acct \in DOMAIN user_state
            /\ user_state[c.acct].owner = c.user
            /\ c.expires_at >= now
            /\ HasCompanion(Transaction("claim_brush_dev", c), c)
            /\ << c.user, c.nonce >> \notin DOMAIN claim)
      /\ t.result = "Ok" =>
           LET pre == user_state[c.acct] IN
           /\ t.user_state = Put(user_state, c.acct,
                UserState(pre.owner, pre.streak, pre.last_day_claimed,
                          IF pre.total_claims = U32_MAX THEN U32_MAX
                          ELSE pre.total_claims + 1))
           /\ t.claim = Put(claim, << c.user, c.nonce >>, Claim(c.user, c.nonce, c.day))

\* a user whose last claimed day is 1 can make a dev claim for day 0, for
\* day 1 and for day 2, while the dev claim of another signer on this
\* user's UserState, expired ones and unattested ones are rejected
DevFrameWitness ==
  \E u \in DOMAIN user_state :
    /\ user_state[u].last_day_claimed = 1 /\ user_state[u].streak = 1
    /\ \A d \in {0, 1, 2} :
         \E c \in UserCalls :
           /\ c.user = u /\ c.acct = u /\ c.day = d
           /\ \E t \in process_claim_brush_dev(user_state, claim, now, c) :
                t.result = "Ok" /\ t.user_state[u].streak = 1
                  /\ t.user_state[u].last_day_claimed = 1
                  /\ t.user_state[u].total_claims = 2
    /\ \E c \in UserCalls :
         /\ c.user # u /\ c.acct = u /\ c.user \in DOMAIN user_state
         /\ c.expires_at >= now /\ c.tx = "attested"
         /\ << c.user, c.nonce >> \notin DOMAIN claim
         /\ \E t \in process_claim_brush_dev(user_state, claim, now, c) : t.result # "Ok"
    /\ \E c \in UserCalls :
         /\ c.user = u /\ c.acct = u
         /\ \E t \in process_claim_brush_dev(user_state, claim, now, c) : t.result = "Expired"
    /\ \E c \in UserCalls :
         /\ c.user = u /\ c.acct = u
         /\ \E t \in process_claim_brush_dev(user_state, claim, now, c) :
              t.result = "MissingEd25519Ix"

\* the stages call c fails, as conditions on the current state
FailsExpiry(c) == c.expires_at < now
FailsAttestation(c) == ~HasCompanion(Transaction("claim_brush", c), c)
FailsReplay(c) == << c.user, c.nonce >> \in DOMAIN claim
FailsSameDay(c) == c.day = user_state[c.acct].last_day_claimed

DayArithmeticSafe ==
  \A c \in Calls :
    (/\ AccountsValid(c) /\ WellFormed(c)
     /\ user_state[c.acct].last_day_claimed = I64_MAX) =>
      \A t \in Brush(c) :
        /\ c.day = I64_MAX => t.result = "AlreadyClaimedToday"
        /\ c.day # I64_MAX => t.result = "InvalidDay"
        /\ Unchanged(t)

\* the results and final ledgers of running call x and then call y, each
\* as one transaction, from the accounts `at`
InOrder(x, y, at) ==
  UNION { { [results |-> << t1.result, t2.result >>,
             user_state |-> t2.user_state, claim |-> t2.claim] :
              t2 \in Run(y.ix, t1, now, y.c) } :
          t1 \in Run(x.ix, at, now, x.c) }

\* the pair of probe has run; `first` and `second` are the calls in the
\* order the scheduler ran them
BothRan == probe.kind = "pair" /\ Len(probe.order) = 2
SuccessCount == Cardinality({ k \in 1..2 : probe.results[k] = "Ok" })

RecordsOf(u, cl) == { k \in DOMAIN cl : k[1] = u }

\* ledger t has the UserState and the ClaimRecords of user b as they are
SameFor(b, t) ==
  /\ (b \in DOMAIN t.user_state) = (b \in DOMAIN user_state)
  /\ b \in DOMAIN user_state => t.user_state[b] = user_state[b]
  /\ RecordsOf(b, t.claim) = RecordsOf(b, claim)
  /\ \A k \in RecordsOf(b, claim) : t.claim[k] = claim[k]

\* every ledger an operation of the two users can leave in the current
\* state, with the signer and, for a claim, the UserState account passed
Operations ==
  { [user |-> u, acct |-> u, claim |-> FALSE,
     t |-> process_init_user(user_state, claim, u)] : u \in TwoUsers }
  \cup UNION { { [user |-> c.user, acct |-> c.acct, claim |-> TRUE, t |-> t] :
                   t \in process_claim_brush(user_state, claim, now, c)
                         \cup process_claim_brush_dev(user_state, claim, now, c) } :
               c \in UserCalls }

\* C19: the UserState at the address of user u has owner = u, and no
\* operation changes the owner of an existing UserState; every successful
\* claim_brush or claim_brush_dev is issued by the owner of the UserState it
\* changes; no operation issued by user A changes the UserState or the
\* ClaimRecords of another user B.
OwnerBinding ==
  /\ \A u \in DOMAIN user_state : user_state[u].owner = u
  /\ \A k \in DOMAIN claim : claim[k].user = k[1]
  /\ \A op \in Operations :
       /\ \A u \in DOMAIN user_state :
            u \in DOMAIN op.t.user_state /\ op.t.user_state[u].owner = user_state[u].owner
       /\ (op.claim /\ op.t.result = "Ok") =>
            /\ op.acct = op.user
            /\ user_state[op.acct].owner = op.user
       /\ \A b \in TwoUsers \ {op.user} : SameFor(b, op.t)

\* both users hold a UserState; user 1's attested, unexpired claim with an
\* unused nonce on the UserState of user 2 is rejected under both
\* instructions, while the same claim on their own UserState succeeds
OwnerBindingWitness ==
  /\ DOMAIN user_state = TwoUsers
  /\ \E c \in UserCalls :
       /\ c.user = 1 /\ c.acct = 2 /\ c.expires_at >= now /\ c.tx = "attested"
       /\ << c.user, c.nonce >> \notin DOMAIN claim
       /\ c.day > user_state[1].last_day_claimed /\ user_state[1].last_day_claimed >= 0
       /\ \A op \in Operations :
            (op.claim /\ op.user = 1 /\ op.acct = 2) => op.t.result # "Ok"
       /\ \E t \in process_claim_brush(user_state, claim, now, c) :
            t.result = "ConstraintSeeds"
       /\ \E t \in process_claim_brush(user_state, claim, now, [c EXCEPT !.acct = 1]) :
            t.result = "Ok" /\ t.user_state[1] # user_state[1]
                /\ t.user_state[2] = user_state[2]

\* C20: for every user with total_claims below the u32 maximum the number of
\* ClaimRecords of the user is total_claims; there is one record per
\* successful claim_brush or claim_brush_dev, holding the user, nonce and
\* day of that call, and none for a failed call; no operation removes or
\* changes an existing record.
RecordsAreTombstones ==
  /\ \A u \in DOMAIN user_state :
       user_state[u].total_claims < U32_MAX =>
         Cardinality(RecordsOf(u, claim)) = user_state[u].total_claims
  /\ Cardinality(done) = Cardinality(DOMAIN claim)
  /\ \A a \in done :
       /\ << a.user, a.nonce >> \in DOMAIN claim
       /\ claim[<< a.user, a.nonce >>] = Claim(a.user, a.nonce, a.day)
  /\ \A u \in Users : Initialise(u).claim = claim
  /\ \A c \in Calls :
       \A t \in Either(c) :
         /\ \A k \in DOMAIN claim : k \in DOMAIN t.claim /\ t.claim[k] = claim[k]
         /\ t.result # "Ok" => t.claim = claim
         /\ t.result = "Ok" =>
              /\ << c.user, c.nonce >> \notin DOMAIN claim
              /\ t.claim = Put(claim, << c.user, c.nonce >>, Claim(c.user, c.nonce, c.day))

\* a user with one claim_brush record and one claim_brush_dev record for
\* different days, whose counter is at the maximum, claims again: a third
\* record is created and the two existing ones stay as they are
RecordsAreTombstonesWitness ==
  /\ \E a, b \in done :
       a.ix = "claim_brush" /\ b.ix = "claim_brush_dev" /\ a.user = b.user /\ a.day # b.day
  /\ Cardinality(DOMAIN claim) = 2
  /\ \E c \in Calls :
       \E t \in Either(c) :
         /\ t.result = "Ok"
         /\ Cardinality(DOMAIN t.claim) = 3
         /\ t.user_state[c.acct].total_claims = U32_MAX
  /\ \E c \in Calls : \E t \in Either(c) : t.result = "Expired"

====
